---------------------------- MODULE Spec2Model ----------------------------
(***************************************************************************)
(* Model of the SpecSpec Rust prelude (src/src/codegen/rust/prelude.rs):   *)
(* the validation primitives, the structural combinators, the bundle       *)
(* accessor FSContext, the bundle-level validators and the entry points.   *)
(*                                                                         *)
(* Conventions.                                                            *)
(*  - A Rust String / &str is a sequence of one-character strings, so that *)
(*    join, starts_with, ends_with, file_stem and extension are computed.  *)
(*    Issue codes and message templates are literals of the code and are   *)
(*    kept as TLA+ strings.                                                *)
(*  - Option<T> is a sequence of length 0 (None) or 1 (Some(x)).           *)
(*  - A serde_json Value is a record tagged by t; an f64 is an integer     *)
(*    counting halves (3 is 6 halves, 2.5 is 5 halves), which is exact for *)
(*    every number of the model.                                           *)
(*  - A message is the format template with its arguments; the rendering   *)
(*    done by format! is not modelled.                                     *)
(*  - A closure (Validator, FSValidator) is a record describing the calls  *)
(*    the closure makes; Invoke runs it.  Every invocation of a closure is *)
(*    logged in the ghost field trace of the machine record                *)
(*    m = [issues, trace, depth].                                          *)
(***************************************************************************)
EXTENDS Integers, Sequences, FiniteSets, TLC

VARIABLES fs, pc, fn, args, before, issues, trace, ret

vars == <<fs, pc, fn, args, before, issues, trace, ret>>

----------------------------------------------------------------------------
(* Bounds of the model *)

\* the caller's list holds at most this many earlier issues when a call starts
MaxPrior == 1
\* arrays hold at most this many elements
MaxArrayLen == 3
\* minLength / maxLength / minItems / maxItems range over 0..MaxLimit
MaxLimit == 3
\* validate_oneof is given at most this many candidates
MaxCandidates == 3

----------------------------------------------------------------------------
(* Option<T> *)

None == <<>>

Some(x) == <<x>>

IsSome(o) == o # <<>>

Unwrap(o) == o[1]

----------------------------------------------------------------------------
(* Strings *)

s_root == <<"(", "r", "o", "o", "t", ")">>

s_dot == <<".">>

s_slash == <<"/">>

s_name == <<"n", "a", "m", "e">>

s_items == <<"i", "t", "e", "m", "s">>

s_id == <<"i", "d">>

s_ab == <<"a", "b">>

s_abcd == <<"a", "b", "c", "d">>

s_Ab == <<"A", "b">>

s_zip == <<"z", "i", "p">>

s_asks == <<"a", "s", "k", "s">>

s_pkg == <<"p", "k", "g">>

s_txt == <<"t", "x", "t">>

Lower == {"a", "b", "c", "d", "e", "f", "g", "h", "i", "j", "k", "l", "m",
          "n", "o", "p", "q", "r", "s", "t", "u", "v", "w", "x", "y", "z"}

\* str::starts_with
starts_with(s, prefix) ==
    /\ Len(prefix) <= Len(s)
    /\ SubSeq(s, 1, Len(prefix)) = prefix

\* str::ends_with
ends_with(s, suffix) ==
    /\ Len(suffix) <= Len(s)
    /\ SubSeq(s, Len(s) - Len(suffix) + 1, Len(s)) = suffix

\* [String]::join
RECURSIVE join(_, _)
join(segs, sep) ==
    IF Len(segs) = 0 THEN <<>>
    ELSE IF Len(segs) = 1 THEN segs[1]
    ELSE segs[1] \o sep \o join(Tail(segs), sep)

Digit == <<"0", "1", "2", "3", "4", "5", "6", "7", "8", "9">>

\* the decimal rendering of a usize, as format!("{}", i) gives it
RECURSIVE decimal(_)
decimal(i) ==
    IF i < 10 THEN <<Digit[i + 1]>>
    ELSE decimal(i \div 10) \o <<Digit[(i % 10) + 1]>>

\* format!("[{}]", i)
index_segment(i) == <<"[">> \o decimal(i) \o <<"]">>

----------------------------------------------------------------------------
(* The regex crate, for the patterns of the model *)

\* ^[a-z]+$
p_lower == <<"^", "[", "a", "-", "z", "]", "+", "$">>

\* ^.{3,}$
p_long == <<"^", ".", "{", "3", ",", "}", "$">>

\* an unclosed bracket: Regex::new fails
p_bad == <<"[">>

Patterns == {p_lower, p_long, p_bad}

\* Regex::new(p).is_ok()
regex_ok(p) == p # p_bad

\* re.is_match(s) for the compiled pattern p
is_match(p, s) ==
    IF p = p_lower THEN Len(s) > 0 /\ \A i \in 1..Len(s) : s[i] \in Lower
    ELSE IF p = p_long THEN Len(s) >= 3
    ELSE FALSE

----------------------------------------------------------------------------
(* serde_json::Value *)

Null == [t |-> "null"]

Bool(b) == [t |-> "bool", b |-> b]

\* an integer Number
NumI(n) == [t |-> "num", repr |-> "int", halves |-> 2 * n]

\* a floating Number holding h / 2
NumF(h) == [t |-> "num", repr |-> "float", halves |-> h]

Str(s) == [t |-> "str", s |-> s]

Array(a) == [t |-> "array", arr |-> a]

Object(map) == [t |-> "object", map |-> map]

\* a one-key and a two-key map
Map1(k, v) == [x \in {k} |-> v]

Map2(k1, v1, k2, v2) == [x \in {k1, k2} |-> IF x = k1 THEN v1 ELSE v2]

----------------------------------------------------------------------------
(* Issues *)

Msg(fmt, a) == [fmt |-> fmt, args |-> a]

Issue(path, code, message) == [path |-> path, code |-> code, message |-> message]

add_issue(list, path, code, message) ==
    Append(list, Issue(IF Len(path) = 0 THEN s_root ELSE join(path, s_dot),
                       code, message))

IsPrefix(a, b) == Len(a) <= Len(b) /\ SubSeq(b, 1, Len(a)) = a

----------------------------------------------------------------------------
(* Primitive validators: each returns the issue list after the call *)

validate_str(value, path, list, min_length, max_length, pattern) ==
    IF value.t = "str" THEN
        LET s == value.s
            i1 == IF IsSome(min_length) /\ Len(s) < Unwrap(min_length)
                  THEN add_issue(list, path, "str.too_short",
                         Msg("String length {} is less than minimum {}",
                             <<[len |-> Len(s)], [len |-> Unwrap(min_length)]>>))
                  ELSE list
            i2 == IF IsSome(max_length) /\ Len(s) > Unwrap(max_length)
                  THEN add_issue(i1, path, "str.too_long",
                         Msg("String length {} exceeds maximum {}",
                             <<[len |-> Len(s)], [len |-> Unwrap(max_length)]>>))
                  ELSE i1
        IN  IF IsSome(pattern) /\ regex_ok(Unwrap(pattern))
               /\ ~is_match(Unwrap(pattern), s)
            THEN add_issue(i2, path, "str.pattern_mismatch",
                   Msg("String does not match pattern {}", <<[str |-> Unwrap(pattern)]>>))
            ELSE i2
    ELSE add_issue(list, path, "type.mismatch",
           Msg("Expected string, got {:?}", <<[val |-> value]>>))

validate_num(value, path, list, min, max, integer) ==
    IF value.t = "num" THEN
        LET num == value.halves
            i1 == IF integer /\ num % 2 # 0
                  THEN add_issue(list, path, "num.not_integer",
                         Msg("Expected integer, got {}", <<[f64 |-> num]>>))
                  ELSE list
            i2 == IF IsSome(min) /\ num < Unwrap(min)
                  THEN add_issue(i1, path, "num.too_small",
                         Msg("Number {} is less than minimum {}",
                             <<[f64 |-> num], [f64 |-> Unwrap(min)]>>))
                  ELSE i1
        IN  IF IsSome(max) /\ num > Unwrap(max)
            THEN add_issue(i2, path, "num.too_large",
                   Msg("Number {} exceeds maximum {}",
                       <<[f64 |-> num], [f64 |-> Unwrap(max)]>>))
            ELSE i2
    ELSE add_issue(list, path, "type.mismatch",
           Msg("Expected number, got {:?}", <<[val |-> value]>>))

validate_bool(value, path, list) ==
    IF value.t # "bool"
    THEN add_issue(list, path, "type.mismatch",
           Msg("Expected boolean, got {:?}", <<[val |-> value]>>))
    ELSE list

\* validate_literal::<bool>: Value == bool is as_bool() == Some(expected)
validate_literal(value, path, list, expected) ==
    IF ~(value.t = "bool" /\ value.b = expected)
    THEN add_issue(list, path, "literal.mismatch",
           Msg("Expected {:?}, got {:?}", <<[bool |-> expected], [val |-> value]>>))
    ELSE list

validate_literal_str(value, path, list, expected) ==
    IF value.t = "str" /\ value.s = expected THEN list
    ELSE add_issue(list, path, "literal.mismatch",
           Msg("Expected {:?}, got {:?}", <<[str |-> expected], [val |-> value]>>))

\* as_i64 is Some only for an integer Number
validate_literal_i64(value, path, list, expected) ==
    IF value.t = "num" /\ value.repr = "int" /\ value.halves = 2 * expected THEN list
    ELSE add_issue(list, path, "literal.mismatch",
           Msg("Expected {}, got {:?}", <<[i64 |-> expected], [val |-> value]>>))

validate_pattern(value, path, list, pattern) ==
    IF value.t = "str" THEN
        IF regex_ok(pattern) /\ ~is_match(pattern, value.s)
        THEN add_issue(list, path, "pattern.mismatch",
               Msg("Value does not match pattern {}", <<[str |-> pattern]>>))
        ELSE list
    ELSE add_issue(list, path, "type.mismatch",
           Msg("Expected string for pattern match, got {:?}", <<[val |-> value]>>))

----------------------------------------------------------------------------
(* Structural validators.  m = [issues, trace, depth] is the issue list    *)
(* the call is given, with the log of closure invocations made so far and  *)
(* the number of closures the call is nested in; each returns m after it.  *)

Machine(list) == [issues |-> list, trace |-> <<>>, depth |-> 0]

\* validator(value, path, issues) for a boxed Validator closure
RECURSIVE Invoke(_, _, _, _)

\* returns the boolean with the issue list after the call
validate_object(value, path, list) ==
    IF value.t = "object"
    THEN [ok |-> TRUE, issues |-> list]
    ELSE [ok |-> FALSE,
          issues |-> add_issue(list, path, "type.mismatch",
                       Msg("Expected object, got {:?}", <<[val |-> value]>>))]

\* the mutant of validate_field that reports a required field of a non-object
validate_field_strict(obj, path, m, key, validator, optional) ==
    IF obj.t = "object" THEN
        IF key \in DOMAIN obj.map THEN
            IF IsSome(validator)
            THEN Invoke(Unwrap(validator), obj.map[key], Append(path, key), m)
            ELSE m
        ELSE IF ~optional
        THEN [m EXCEPT !.issues = add_issue(@, path, "field.missing",
                 Msg("Missing required field: {}", <<[str |-> key]>>))]
        ELSE m
    ELSE IF ~optional
    THEN [m EXCEPT !.issues = add_issue(@, path, "field.missing",
             Msg("Missing required field: {}", <<[str |-> key]>>))]
    ELSE m

\* the mutant of validate_field that reports a missing optional field too
validate_field_no_optional(obj, path, m, key, validator, optional) ==
    IF obj.t = "object" THEN
        IF key \in DOMAIN obj.map THEN
            IF IsSome(validator)
            THEN Invoke(Unwrap(validator), obj.map[key], Append(path, key), m)
            ELSE m
        ELSE [m EXCEPT !.issues = add_issue(@, path, "field.missing",
                 Msg("Missing required field: {}", <<[str |-> key]>>))]
    ELSE m

validate_field(obj, path, m, key, validator, optional) ==
    IF obj.t = "object" THEN
        IF key \in DOMAIN obj.map THEN
            IF IsSome(validator)
            THEN Invoke(Unwrap(validator), obj.map[key], Append(path, key), m)
            ELSE m
        ELSE IF ~optional
        THEN [m EXCEPT !.issues = add_issue(@, path, "field.missing",
                 Msg("Missing required field: {}", <<[str |-> key]>>))]
        ELSE m
    ELSE m

\* the mutant of the item loop that shares one path across the elements
RECURSIVE list_items_shared_path(_, _, _, _, _)
list_items_shared_path(arr, i, path, m, iv) ==
    IF i >= Len(arr) THEN m
    ELSE LET new_path == Append(path, index_segment(i))
         IN  list_items_shared_path(arr, i + 1, new_path,
                                    Invoke(iv, arr[i + 1], new_path, m), iv)

\* the mutant of the item loop that visits the elements last to first
RECURSIVE list_items_rev(_, _, _, _, _)
list_items_rev(arr, i, path, m, iv) ==
    IF i >= Len(arr) THEN m
    ELSE list_items_rev(arr, i + 1, path,
                        Invoke(iv, arr[Len(arr) - i],
                               Append(path, index_segment(Len(arr) - 1 - i)), m), iv)

\* for (i, item) in arr.iter().enumerate(), from index i on
RECURSIVE list_items(_, _, _, _, _)
list_items(arr, i, path, m, iv) ==
    IF i >= Len(arr) THEN m
    ELSE LET new_path == Append(path, index_segment(i))
         IN  list_items(arr, i + 1, path, Invoke(iv, arr[i + 1], new_path, m), iv)

\* the mutant of validate_list that skips the items of an out-of-bounds list
validate_list_bail(value, path, m, item_validator, min_items, max_items) ==
    IF value.t = "array" THEN
        LET arr == value.arr
            short == IsSome(min_items) /\ Len(arr) < Unwrap(min_items)
            long == IsSome(max_items) /\ Len(arr) > Unwrap(max_items)
        IN  IF short
            THEN [m EXCEPT !.issues = add_issue(@, path, "list.too_short",
                     Msg("Array length {} is less than minimum {}",
                         <<[len |-> Len(arr)], [len |-> Unwrap(min_items)]>>))]
            ELSE IF long
            THEN [m EXCEPT !.issues = add_issue(@, path, "list.too_long",
                     Msg("Array length {} exceeds maximum {}",
                         <<[len |-> Len(arr)], [len |-> Unwrap(max_items)]>>))]
            ELSE IF IsSome(item_validator)
            THEN list_items(arr, 0, path, m, Unwrap(item_validator))
            ELSE m
    ELSE [m EXCEPT !.issues = add_issue(@, path, "type.mismatch",
             Msg("Expected array, got {:?}", <<[val |-> value]>>))]

validate_list(value, path, m, item_validator, min_items, max_items) ==
    IF value.t = "array" THEN
        LET arr == value.arr
            m1 == IF IsSome(min_items) /\ Len(arr) < Unwrap(min_items)
                  THEN [m EXCEPT !.issues = add_issue(@, path, "list.too_short",
                           Msg("Array length {} is less than minimum {}",
                               <<[len |-> Len(arr)], [len |-> Unwrap(min_items)]>>))]
                  ELSE m
            m2 == IF IsSome(max_items) /\ Len(arr) > Unwrap(max_items)
                  THEN [m1 EXCEPT !.issues = add_issue(@, path, "list.too_long",
                           Msg("Array length {} exceeds maximum {}",
                               <<[len |-> Len(arr)], [len |-> Unwrap(max_items)]>>))]
                  ELSE m1
        IN  IF IsSome(item_validator)
            THEN list_items(arr, 0, path, m2, Unwrap(item_validator))
            ELSE m2
    ELSE [m EXCEPT !.issues = add_issue(@, path, "type.mismatch",
             Msg("Expected array, got {:?}", <<[val |-> value]>>))]

\* the mutant of the candidate loop that runs each candidate on the caller's list
RECURSIVE oneof_from_leaky(_, _, _, _, _)
oneof_from_leaky(value, path, m, validators, i) ==
    IF i > Len(validators)
    THEN [m EXCEPT !.issues = add_issue(@, path, "oneof.no_match",
             Msg("Value does not match any of the options", <<>>))]
    ELSE LET r == Invoke(validators[i], value, path, m)
         IN  IF r.issues = m.issues THEN r
             ELSE oneof_from_leaky(value, path, r, validators, i + 1)

\* for validator in validators, from the i-th candidate on; test_issues is the
\* fresh list each candidate is given, and only the trace survives the attempt
RECURSIVE oneof_from(_, _, _, _, _)
oneof_from(value, path, m, validators, i) ==
    IF i > Len(validators)
    THEN [m EXCEPT !.issues = add_issue(@, path, "oneof.no_match",
             Msg("Value does not match any of the options", <<>>))]
    ELSE LET test_issues == <<>>
             r == Invoke(validators[i], value, path, [m EXCEPT !.issues = test_issues])
         IN  IF r.issues = <<>>
             THEN [m EXCEPT !.trace = r.trace]
             ELSE oneof_from(value, path, [m EXCEPT !.trace = r.trace],
                             validators, i + 1)

validate_oneof(value, path, m, validators) ==
    oneof_from(value, path, m, validators, 1)

----------------------------------------------------------------------------
(* Validator closures.  A closure is a record v with v.k naming the calls  *)
(* it makes:                                                               *)
(*   str, num, bool, literal, literal_str, literal_i64, pattern: the       *)
(*     primitive with the closure's captured constraints;                  *)
(*   object: the validate_field calls of v.fields in order, guarded by     *)
(*     validate_object when v.checked;                                     *)
(*   list, oneof: the combinator with the captured closures.               *)

\* the validate_field calls of a closure, from the i-th on
RECURSIVE run_fields(_, _, _, _, _)
run_fields(value, path, m, fields, i) ==
    IF i > Len(fields) THEN m
    ELSE run_fields(value, path,
                    validate_field(value, path, m, fields[i].key,
                                   fields[i].validator, fields[i].optional),
                    fields, i + 1)

\* the body of the closure v
Body(v, value, path, m) ==
    CASE v.k = "str" ->
           [m EXCEPT !.issues = validate_str(value, path, @, v.min_length,
                                             v.max_length, v.pattern)]
      [] v.k = "num" ->
           [m EXCEPT !.issues = validate_num(value, path, @, v.min, v.max, v.integer)]
      [] v.k = "bool" ->
           [m EXCEPT !.issues = validate_bool(value, path, @)]
      [] v.k = "literal" ->
           [m EXCEPT !.issues = validate_literal(value, path, @, v.expected_bool)]
      [] v.k = "literal_str" ->
           [m EXCEPT !.issues = validate_literal_str(value, path, @, v.expected_str)]
      [] v.k = "literal_i64" ->
           [m EXCEPT !.issues = validate_literal_i64(value, path, @, v.expected_i64)]
      [] v.k = "pattern" ->
           [m EXCEPT !.issues = validate_pattern(value, path, @, v.pattern)]
      [] v.k = "object" ->
           IF v.checked
           THEN LET o == validate_object(value, path, m.issues)
                IN  IF o.ok
                    THEN run_fields(value, path, [m EXCEPT !.issues = o.issues],
                                    v.fields, 1)
                    ELSE [m EXCEPT !.issues = o.issues]
           ELSE run_fields(value, path, m, v.fields, 1)
      [] v.k = "list" ->
           validate_list(value, path, m, v.item_validator, v.min_items, v.max_items)
      [] v.k = "oneof" ->
           validate_oneof(value, path, m, v.validators)

\* one entry of the trace: the closure, its arguments, and the nesting depth
Call(v, value, path, m) ==
    [v |-> v, value |-> value, path |-> path, given |-> m.issues, depth |-> m.depth]

Invoke(v, value, path, m) ==
    [Body(v, value, path,
          [m EXCEPT !.trace = Append(@, Call(v, value, path, m)), !.depth = @ + 1])
     EXCEPT !.depth = m.depth]

\* the invocations made by the call under study itself, not by a nested closure
Direct(tr) == SelectSeq(tr, LAMBDA e : e.depth = 0)

----------------------------------------------------------------------------
(* The file system and the zip crate.  A file's bytes are modelled by what *)
(* the decoders make of them: utf8 says whether String::from_utf8 /        *)
(* read_to_string succeeds, json is what serde_json::from_str returns.     *)

Data(utf8, json) == [utf8 |-> utf8, json |-> json]

\* a file holding the JSON text of value
JsonData(value) == Data(TRUE, Some(value))

\* a text file that is not JSON
TextData == Data(TRUE, None)

Entry(name, data) == [name |-> name, data |-> data, fault |-> "none"]

s_m_json == <<"m", ".", "j", "s", "o", "n">>

s_bad_json == <<"n", "o", ".", "j", "s", "o", "n">>

s_bin == <<"r", "a", "w">>

s_d == <<"d">>

s_d_x == <<"d", "/", "x">>

s_d_x_txt == <<"d", "/", "x", ".", "t", "x", "t">>

s_a == <<"a">>

s_a_b == <<"a", "/", "b">>

\* the manifest the bundles hold
Manifest == Object(Map1(s_name, Str(s_ab)))

\* the entries of the archives, in archive order
ZipMain == <<Entry(s_m_json, JsonData(Manifest)), Entry(<<"d", "/">>, TextData),
             Entry(s_d_x, TextData), Entry(s_d_x_txt, TextData),
             Entry(s_bad_json, TextData), Entry(s_bin, Data(FALSE, None))>>

\* an entry that is a file and also the prefix of another entry, and a
\* directory entry named with a backslash
ZipOverlap ==
    <<Entry(s_a, TextData), Entry(s_a_b, TextData), Entry(<<"a", "x">>, TextData),
      Entry(<<"w", "\\">>, TextData)>>

ZipEmpty == <<>>

p_b_zip == <<"b", ".", "z", "i", "p">>

p_c_zip == <<"c", ".", "z", "i", "p">>

p_e_zip == <<"e", ".", "z", "i", "p">>

p_b_asks == <<"b", ".", "a", "s", "k", "s">>

p_b_pkg == <<"b", ".", "p", "k", "g">>

p_x_zip == <<"x", ".", "z", "i", "p">>

p_b_txt == <<"b", ".", "t", "x", "t">>

p_dir == <<"b", "d", "l">>

p_dir_zip == <<"d", ".", "z", "i", "p">>

p_dev_zip == <<"t", "t", "y", ".", "z", "i", "p">>

\* a directory: its files by relative path, and its sub-directories
Dir(files, dirs) == [kind |-> "dir", files |-> files, dirs |-> dirs]

\* a regular file: opens is whether File::open succeeds on it, zip is the
\* archive ZipArchive::new reads from it, if any
File(zip) == [kind |-> "file", opens |-> TRUE, zip |-> zip]

DirMain == Dir([x \in {s_m_json, s_d_x, s_bad_json} |->
                   IF x = s_m_json THEN JsonData(Manifest) ELSE TextData],
               {s_d})

\* the file system the calls run against: the value of the variable fs
FS == [x \in {p_b_zip, p_c_zip, p_e_zip, p_b_asks, p_b_pkg, p_x_zip, p_b_txt,
              p_dir, p_dir_zip, p_dev_zip,
              <<"u", ".", "z", "i", "p">>, <<"i", ".", "z", "i", "p">>,
              <<"r", ".", "z", "i", "p">>} |->
         CASE x = p_b_zip -> File(Some(ZipMain))
           [] x = p_c_zip -> File(Some(ZipOverlap))
           [] x = p_e_zip -> File(Some(ZipEmpty))
           [] x = p_b_asks -> File(Some(ZipMain))
           [] x = p_b_pkg -> File(Some(ZipMain))
           [] x = p_x_zip -> File(None)
           [] x = p_b_txt -> File(None)
           [] x = p_dir -> DirMain
           [] x = p_dir_zip -> DirMain
           [] x = p_dev_zip -> [kind |-> "other"]
           \* a file that cannot be opened
           [] x = <<"u", ".", "z", "i", "p">> -> [File(None) EXCEPT !.opens = FALSE]
           \* an archive whose second entry cannot be read by index
           [] x = <<"i", ".", "z", "i", "p">> ->
                File(Some(<<Entry(s_a, TextData),
                            [Entry(s_a_b, TextData) EXCEPT !.fault = "index"]>>))
           \* an archive whose content cannot be read: of a directory entry,
           \* which is not read, and of a file entry
           [] x = <<"r", ".", "z", "i", "p">> ->
                File(Some(<<[Entry(<<"d", "/">>, TextData) EXCEPT !.fault = "content"],
                            [Entry(s_d_x, TextData) EXCEPT !.fault = "content"]>>))]

BundlePaths == DOMAIN FS \cup {<<"g", "o", "n", "e">>, <<"g", ".", "z", "i", "p">>}

\* Path::exists, Path::is_dir
path_exists(p) == p \in DOMAIN fs

path_is_dir(p) == p \in DOMAIN fs /\ fs[p].kind = "dir"

\* the kind of base.join(rel) for a directory base: "file", "dir" or "none"
joined_kind(base, rel) ==
    IF ~path_is_dir(base) THEN "none"
    ELSE IF rel = <<>> THEN "dir"
    ELSE IF rel \in DOMAIN fs[base].files THEN "file"
    ELSE IF rel \in fs[base].dirs THEN "dir"
    ELSE "none"

\* the position of the last occurrence of the character c in s, 0 if none
last_index(s, c) ==
    LET hits == {i \in 1..Len(s) : s[i] = c}
    IN  IF hits = {} THEN 0 ELSE CHOOSE i \in hits : \A j \in hits : j <= i

\* Path::file_name, for a path with no trailing separator
file_name(p) == SubSeq(p, last_index(p, "/") + 1, Len(p))

\* Path::file_stem
file_stem(p) ==
    LET name == file_name(p)
        dot == last_index(name, ".")
    IN  IF dot <= 1 THEN name ELSE SubSeq(name, 1, dot - 1)

\* Path::extension, None as <<>>
extension(p) ==
    LET name == file_name(p)
        dot == last_index(name, ".")
    IN  IF dot <= 1 THEN None ELSE Some(SubSeq(name, dot + 1, Len(name)))

----------------------------------------------------------------------------
(* FSContext *)

Ok(x) == [ok |-> TRUE, val |-> x]

Err(e) == [ok |-> FALSE, err |-> e]

\* entry.is_dir() of the zip crate: the name ends with "/" or with "\\"
entry_is_dir(e) == ends_with(e.name, s_slash) \/ ends_with(e.name, <<"\\">>)

\* the loop over archive.by_index(i): the non-directory entries by name
zip_entries_of(archive) ==
    LET files == {i \in 1..Len(archive) : ~entry_is_dir(archive[i])}
        names == {archive[i].name : i \in files}
    IN  [n \in names |->
           archive[CHOOSE i \in files :
                     /\ archive[i].name = n
                     /\ \A j \in files : archive[j].name = n => j <= i].data]

\* the first step of the loop that fails, if any: by_index of an entry, or
\* read_to_end of an entry that is not a directory
zip_fault(archive) ==
    LET bad == {i \in 1..Len(archive) :
                   \/ archive[i].fault = "index"
                   \/ archive[i].fault = "content" /\ ~entry_is_dir(archive[i])}
    IN  IF bad = {} THEN None
        ELSE Some(archive[CHOOSE i \in bad : \A j \in bad : i <= j].fault)

\* the extensions FSContext::new takes for an archive
fs_context_archive_suffix(path) ==
    ends_with(path, s_dot \o s_zip) \/ ends_with(path, s_dot \o s_asks)

\* FSContext::new
FSContext_new(path) ==
    IF path_is_dir(path)
    THEN Ok([base_path |-> path, is_zip |-> FALSE, zip_entries |-> <<>>])
    ELSE IF path \in DOMAIN fs /\ fs[path].kind = "file" /\ fs_context_archive_suffix(path)
    THEN IF ~fs[path].opens
         THEN Err(Msg("Cannot open zip: {}", <<>>))
         ELSE IF ~IsSome(fs[path].zip)
         THEN Err(Msg("Invalid zip: {}", <<>>))
         ELSE IF zip_fault(Unwrap(fs[path].zip)) = Some("index")
         THEN Err(Msg("Cannot read zip entry: {}", <<>>))
         ELSE IF zip_fault(Unwrap(fs[path].zip)) = Some("content")
         THEN Err(Msg("Cannot read zip content: {}", <<>>))
         ELSE Ok([base_path |-> path, is_zip |-> TRUE,
                  zip_entries |-> zip_entries_of(Unwrap(fs[path].zip))])
    ELSE Err(Msg("Not a valid bundle: {}", <<[str |-> path]>>))

\* zip_entries.keys().any(|k| k.starts_with(&format!("{}/", rel_path)))
has_prefix_entry(ctx, rel_path) ==
    \E k \in DOMAIN ctx.zip_entries : starts_with(k, rel_path \o s_slash)

\* the mutant of is_dir that takes an entry of the same name for a directory
is_dir_exact(ctx, rel_path) ==
    IF ctx.is_zip
    THEN rel_path \in DOMAIN ctx.zip_entries \/ has_prefix_entry(ctx, rel_path)
    ELSE joined_kind(ctx.base_path, rel_path) = "dir"

exists(ctx, rel_path) ==
    IF ctx.is_zip
    THEN rel_path \in DOMAIN ctx.zip_entries \/ has_prefix_entry(ctx, rel_path)
    ELSE joined_kind(ctx.base_path, rel_path) # "none"

is_file(ctx, rel_path) ==
    IF ctx.is_zip
    THEN rel_path \in DOMAIN ctx.zip_entries
    ELSE joined_kind(ctx.base_path, rel_path) = "file"

is_dir(ctx, rel_path) ==
    IF ctx.is_zip
    THEN has_prefix_entry(ctx, rel_path)
    ELSE joined_kind(ctx.base_path, rel_path) = "dir"

\* FSContext::read: the data read, as the text decoder leaves it
read(ctx, rel_path) ==
    IF ctx.is_zip
    THEN IF rel_path \in DOMAIN ctx.zip_entries
         THEN IF ctx.zip_entries[rel_path].utf8
              THEN Ok(ctx.zip_entries[rel_path])
              ELSE Err(Msg("Invalid UTF-8: {}", <<>>))
         ELSE Err(Msg("File not found: {}", <<[str |-> rel_path]>>))
    ELSE IF joined_kind(ctx.base_path, rel_path) = "file"
            /\ fs[ctx.base_path].files[rel_path].utf8
         THEN Ok(fs[ctx.base_path].files[rel_path])
         ELSE Err(Msg("Cannot read file: {}", <<>>))

\* serde_json::from_str on what read returned, an error of read passed on by ?
from_str(content) ==
    IF ~content.ok THEN content
    ELSE IF IsSome(content.val.json) THEN Ok(Unwrap(content.val.json))
    ELSE Err(Msg("Invalid JSON: {}", <<>>))

read_json(ctx, rel_path) == from_str(read(ctx, rel_path))

basename(ctx) == file_stem(ctx.base_path)

----------------------------------------------------------------------------
(* File system validators.  An FSValidator closure is a record with the    *)
(* calls it makes on the accessor, v.steps, in order; each step is a       *)
(* validate_json_file, validate_fs_file or validate_fs_directory call.     *)

\* content_validator(ctx, path, issues) for a boxed FSValidator closure
RECURSIVE InvokeFS(_, _, _, _)

\* bundle_path.ends_with(".zip") || zip_ext.map(|e| ends_with(".{e}")).unwrap_or(false)
bundle_archive_suffix(bundle_path, zip_ext) ==
    \/ ends_with(bundle_path, s_dot \o s_zip)
    \/ IsSome(zip_ext) /\ ends_with(bundle_path, s_dot \o Unwrap(zip_ext))

\* what validate_bundle returns, with the machine after the call
Returned(m, r) == [m |-> m, ret |-> r]

\* the name pattern check of the Ok arm
bundle_name(name, path_list, m, name_pattern) ==
    IF IsSome(name_pattern) /\ regex_ok(Unwrap(name_pattern))
       /\ ~is_match(Unwrap(name_pattern), name)
    THEN [m EXCEPT !.issues = add_issue(@, path_list, "bundle.name_mismatch",
             Msg("Name '{}' does not match pattern", <<[str |-> name]>>))]
    ELSE m

\* the content validator call of the Ok arm, m being the machine after the
\* name pattern check
bundle_content(ctx, path_list, m, content_validator) ==
    IF IsSome(content_validator)
    THEN Returned(InvokeFS(Unwrap(content_validator), ctx, path_list, m), Some(ctx))
    ELSE Returned(m, Some(ctx))

\* match FSContext::new(bundle_path) { Ok(ctx) => ..., Err(e) => ... }
bundle_opened(made, path_list, m, name_pattern, content_validator) ==
    IF made.ok
    THEN bundle_content(made.val, path_list,
                        bundle_name(basename(made.val), path_list, m, name_pattern),
                        content_validator)
    ELSE Returned([m EXCEPT !.issues =
                      add_issue(@, path_list, "bundle.open_error", made.err)], None)

\* the mutant of validate_bundle that goes on after a refused directory
validate_bundle_lenient(bundle_path, path_list, m, accept_dir, accept_zip, zip_ext, name_pattern, content_validator) ==
    IF ~path_exists(bundle_path)
    THEN Returned([m EXCEPT !.issues = add_issue(@, path_list, "bundle.not_found",
                      Msg("Path not found: {}", <<[str |-> bundle_path]>>))], None)
    ELSE
    LET dir == path_is_dir(bundle_path)
        zip == ~dir /\ bundle_archive_suffix(bundle_path, zip_ext)
        m0 == IF dir /\ ~accept_dir
              THEN [m EXCEPT !.issues = add_issue(@, path_list, "bundle.type_mismatch",
                       Msg("Directory not accepted", <<>>))]
              ELSE m
    IN  IF zip /\ ~accept_zip
        THEN Returned([m0 EXCEPT !.issues = add_issue(@, path_list, "bundle.type_mismatch",
                          Msg("Zip file not accepted", <<>>))], None)
        ELSE IF ~dir /\ ~zip
        THEN Returned([m0 EXCEPT !.issues = add_issue(@, path_list, "bundle.invalid",
                          Msg("Not a valid bundle: {}", <<[str |-> bundle_path]>>))], None)
        ELSE bundle_opened(FSContext_new(bundle_path), path_list, m0, name_pattern,
                           content_validator)

validate_bundle(bundle_path, path_list, m, accept_dir, accept_zip, zip_ext, name_pattern, content_validator) ==
    IF ~path_exists(bundle_path)
    THEN Returned([m EXCEPT !.issues = add_issue(@, path_list, "bundle.not_found",
                      Msg("Path not found: {}", <<[str |-> bundle_path]>>))], None)
    ELSE
    LET dir == path_is_dir(bundle_path)
        zip == ~dir /\ bundle_archive_suffix(bundle_path, zip_ext)
    IN  IF dir /\ ~accept_dir
        THEN Returned([m EXCEPT !.issues = add_issue(@, path_list, "bundle.type_mismatch",
                          Msg("Directory not accepted", <<>>))], None)
        ELSE IF zip /\ ~accept_zip
        THEN Returned([m EXCEPT !.issues = add_issue(@, path_list, "bundle.type_mismatch",
                          Msg("Zip file not accepted", <<>>))], None)
        ELSE IF ~dir /\ ~zip
        THEN Returned([m EXCEPT !.issues = add_issue(@, path_list, "bundle.invalid",
                          Msg("Not a valid bundle: {}", <<[str |-> bundle_path]>>))], None)
        ELSE bundle_opened(FSContext_new(bundle_path), path_list, m, name_pattern,
                           content_validator)

\* match ctx.read_json(rel_path) { Ok(content) => ..., Err(e) => ... }
json_file_read(parsed, file_path, m, content_validator) ==
    IF parsed.ok
    THEN IF IsSome(content_validator)
         THEN Returned(Invoke(Unwrap(content_validator), parsed.val, file_path, m),
                       Some(parsed.val))
         ELSE Returned(m, Some(parsed.val))
    ELSE Returned([m EXCEPT !.issues =
                      add_issue(@, file_path, "json.parse_error", parsed.err)], None)

\* the checks of validate_json_file on the path file_path
json_file_at(ctx, rel_path, file_path, m, content_validator) ==
    IF ~exists(ctx, rel_path)
    THEN Returned([m EXCEPT !.issues = add_issue(@, file_path, "file.not_found",
                      Msg("File not found: {}", <<[str |-> rel_path]>>))], None)
    ELSE IF ~is_file(ctx, rel_path)
    THEN Returned([m EXCEPT !.issues = add_issue(@, file_path, "file.not_file",
                      Msg("Not a file: {}", <<[str |-> rel_path]>>))], None)
    ELSE json_file_read(read_json(ctx, rel_path), file_path, m, content_validator)

validate_json_file(ctx, rel_path, path, m, content_validator) ==
    json_file_at(ctx, rel_path, Append(path, rel_path), m, content_validator)

\* returns the boolean with the issue list after the call
validate_fs_file(ctx, rel_path, path, list, ext) ==
    LET file_path == Append(path, rel_path)
        found == extension(rel_path)
        actual_ext == IF IsSome(found) THEN Unwrap(found) ELSE <<>>
    IN  IF ~exists(ctx, rel_path)
        THEN [ok |-> FALSE,
              issues |-> add_issue(list, file_path, "file.not_found",
                           Msg("File not found: {}", <<[str |-> rel_path]>>))]
        ELSE IF ~is_file(ctx, rel_path)
        THEN [ok |-> FALSE,
              issues |-> add_issue(list, file_path, "file.not_file",
                           Msg("Not a file: {}", <<[str |-> rel_path]>>))]
        ELSE IF IsSome(ext) /\ actual_ext # Unwrap(ext)
        THEN [ok |-> FALSE,
              issues |-> add_issue(list, file_path, "file.wrong_ext",
                           Msg("Expected .{}, got .{}",
                               <<[str |-> Unwrap(ext)], [str |-> actual_ext]>>))]
        ELSE [ok |-> TRUE, issues |-> list]

\* returns the boolean with the issue list after the call
validate_fs_directory(ctx, rel_path, path, list) ==
    LET dir_path == Append(path, rel_path)
    IN  IF ~exists(ctx, rel_path)
        THEN [ok |-> FALSE,
              issues |-> add_issue(list, dir_path, "dir.not_found",
                           Msg("Directory not found: {}", <<[str |-> rel_path]>>))]
        ELSE IF ~is_dir(ctx, rel_path)
        THEN [ok |-> FALSE,
              issues |-> add_issue(list, dir_path, "dir.not_dir",
                           Msg("Not a directory: {}", <<[str |-> rel_path]>>))]
        ELSE [ok |-> TRUE, issues |-> list]

\* one call of an FSValidator closure on the accessor
fs_step(step, ctx, path, m) ==
    CASE step.k = "json_file" ->
           validate_json_file(ctx, step.rel_path, path, m, step.content_validator).m
      [] step.k = "fs_file" ->
           [m EXCEPT !.issues = validate_fs_file(ctx, step.rel_path, path, @,
                                                 step.ext).issues]
      [] step.k = "fs_directory" ->
           [m EXCEPT !.issues = validate_fs_directory(ctx, step.rel_path, path, @).issues]

\* the calls of an FSValidator closure, from the i-th on
RECURSIVE fs_steps(_, _, _, _, _)
fs_steps(steps, i, ctx, path, m) ==
    IF i > Len(steps) THEN m
    ELSE fs_steps(steps, i + 1, ctx, path, fs_step(steps[i], ctx, path, m))

\* one entry of the trace for an FSValidator closure
CallFS(v, ctx, path, m) ==
    [v |-> v, ctx |-> ctx, path |-> path, given |-> m.issues, depth |-> m.depth]

InvokeFS(v, ctx, path, m) ==
    [fs_steps(v.steps, 1, ctx, path,
              [m EXCEPT !.trace = Append(@, CallFS(v, ctx, path, m)), !.depth = @ + 1])
     EXCEPT !.depth = m.depth]

\* one entry of the trace for the closure validate_path is given
CallBundle(v, bundle_path, path, m) ==
    [v |-> v, bundle_path |-> bundle_path, path |-> path, given |-> m.issues,
     depth |-> m.depth]

\* the closure returns what validate_bundle returned, at the caller's depth
Leave(r, depth) == Returned([r.m EXCEPT !.depth = depth], r.ret)

\* the closure validate_path is given: a validate_bundle call with the
\* closure's captured arguments
InvokeBundle(v, bundle_path, path, m) ==
    Leave(validate_bundle(bundle_path, path,
                          [m EXCEPT !.trace = Append(@, CallBundle(v, bundle_path, path, m)),
                                    !.depth = @ + 1],
                          v.accept_dir, v.accept_zip, v.zip_ext, v.name_pattern,
                          v.content_validator),
          m.depth)

----------------------------------------------------------------------------
(* Entry points: each returns the ValidationResult with the trace *)

ValidationResult(list) == [ok |-> list = <<>>, issues |-> list]

\* ValidationResult { ok: issues.is_empty(), issues }, with the trace
Wrap(m) == [result |-> ValidationResult(m.issues), trace |-> m.trace]

\* the mutant of validate that reports success whatever was found
validate_always_ok(value, validator) ==
    [Wrap(Invoke(validator, value, <<>>, Machine(<<>>))) EXCEPT !.result.ok = TRUE]

validate(value, validator) ==
    Wrap(Invoke(validator, value, <<>>, Machine(<<>>)))

validate_path(bundle_path, validator) ==
    Wrap(InvokeBundle(validator, bundle_path, <<>>, Machine(<<>>)).m)

----------------------------------------------------------------------------
(* The inputs of the model *)

Min(a, b) == IF a <= b THEN a ELSE b

\* the elements arrays are made of, in order
Elems == <<Str(s_ab), NumI(3), Object(Map1(s_name, Str(s_Ab))), Null, Str(s_abcd)>>

\* { "name": "Ab", "items": [ {"name": "ab"}, {}, {"name": 3} ] }
Document ==
    Object(Map2(s_name, Str(s_Ab),
                s_items, Array(<<Object(Map1(s_name, Str(s_ab))), Object(<<>>),
                                 Object(Map1(s_name, NumI(3)))>>)))

Objects == {Object(<<>>), Object(Map1(s_name, Str(s_abcd))),
            Object(Map2(s_name, NumI(3), s_id, NumF(5))), Document}

Values ==
    {Null, Bool(TRUE), NumI(3), NumF(5), Str(s_ab), Str(s_Ab), Str(s_abcd)}
        \cup {Array(SubSeq(Elems, 1, n)) : n \in 0..Min(MaxArrayLen, Len(Elems))}
        \cup Objects

Keys == {s_name, s_id, s_items}

\* the path segments a call is given
Paths == {<<>>, <<s_items>>, <<s_items, index_segment(2)>>}

OptLimits == {None} \cup {Some(n) : n \in 0..MaxLimit}

\* Option<f64> bounds, in halves
OptF64 == {None, Some(5), Some(6)}

\* closures over the primitives
v_str == [k |-> "str", min_length |-> Some(3), max_length |-> None,
          pattern |-> Some(p_lower)]

v_num == [k |-> "num", min |-> Some(8), max |-> None, integer |-> TRUE]

v_bool == [k |-> "bool"]

v_lit_ab == [k |-> "literal_str", expected_str |-> s_ab]

v_lit_3 == [k |-> "literal_i64", expected_i64 |-> 3]

Field(key, validator, optional) ==
    [key |-> key, validator |-> validator, optional |-> optional]

\* closures over the combinators
v_item == [k |-> "object", checked |-> TRUE,
           fields |-> <<Field(s_name, Some(v_str), FALSE)>>]

v_fields == [k |-> "object", checked |-> FALSE,
             fields |-> <<Field(s_name, Some(v_lit_ab), FALSE),
                          Field(s_id, None, FALSE),
                          Field(s_items, Some(v_bool), TRUE)>>]

v_items == [k |-> "list", item_validator |-> Some(v_item), min_items |-> Some(1),
            max_items |-> Some(2)]

v_either == [k |-> "oneof", validators |-> <<v_lit_3, v_str, v_item>>]

v_doc == [k |-> "object", checked |-> TRUE,
          fields |-> <<Field(s_name, Some(v_either), FALSE),
                       Field(s_items, Some(v_items), FALSE),
                       Field(s_id, Some(v_num), TRUE)>>]

Validators ==
    {v_str, v_num, v_bool, [k |-> "literal", expected_bool |-> TRUE], v_lit_ab, v_lit_3,
     [k |-> "pattern", pattern |-> p_long],
     v_item, v_fields, v_items, v_either, v_doc}

RECURSIVE SeqsUpTo(_, _)
SeqsUpTo(S, n) ==
    IF n = 0 THEN {<<>>}
    ELSE LET shorter == SeqsUpTo(S, n - 1)
         IN  shorter \cup {Append(q, x) : q \in shorter, x \in S}

CandidateLists == SeqsUpTo({v_lit_3, v_str, v_item}, MaxCandidates)

\* the issues earlier checks left in the caller's list, in order
Earlier ==
    add_issue(add_issue(add_issue(<<>>, <<>>, "type.mismatch",
                                  Msg("Expected boolean, got {:?}", <<[val |-> Null]>>)),
                        <<s_id>>, "field.missing",
                        Msg("Missing required field: {}", <<[str |-> s_id]>>)),
              <<s_items>>, "list.too_long",
              Msg("Array length {} exceeds maximum {}", <<[len |-> 3], [len |-> 2]>>))

PriorLists == {SubSeq(Earlier, 1, n) : n \in 0..Min(MaxPrior, Len(Earlier))}

RelPaths == {s_m_json, s_bad_json, s_bin, s_d, s_d_x, s_d_x_txt, s_a, s_a_b, <<"z", "z">>}

\* FSValidator closures
JsonFile(rel_path, content_validator) ==
    [k |-> "json_file", rel_path |-> rel_path, content_validator |-> content_validator]

FsFile(rel_path, ext) == [k |-> "fs_file", rel_path |-> rel_path, ext |-> ext]

FsDirectory(rel_path) == [k |-> "fs_directory", rel_path |-> rel_path]

c_manifest == [steps |-> <<JsonFile(s_m_json, Some(v_fields)), FsDirectory(s_d),
                           FsFile(s_d_x, Some(s_txt))>>]

\* the accessors FSContext::new makes of the bundles of the file system
Contexts == {FSContext_new(p).val : p \in {q \in BundlePaths : FSContext_new(q).ok}}

\* the closures validate_path is given
BundleValidators ==
    {[accept_dir |-> d, accept_zip |-> z, zip_ext |-> e, name_pattern |-> Some(p_long),
      content_validator |-> c] :
        d \in BOOLEAN, z \in BOOLEAN, e \in {None, Some(s_pkg)},
        c \in {None, Some(c_manifest)}}

----------------------------------------------------------------------------
(* The state machine: one call of a function of the prelude on the         *)
(* caller's issue list.                                                    *)
(*   pc      "ready" before the call, "done" after it                      *)
(*   fn      the function called                                           *)
(*   args    its arguments                                                 *)
(*   before  the caller's issue list when the call started                 *)
(*   issues  the caller's issue list                                       *)
(*   trace   the closure invocations the call made                         *)
(*   ret     what the call returned                                        *)

Init ==
    /\ fs = FS
    /\ pc = "ready"
    /\ fn = "none"
    /\ args = <<>>
    /\ before = <<>>
    /\ issues \in PriorLists
    /\ trace = <<>>
    /\ ret = <<>>

\* the call name(a) took the machine to m and returned r
Finish(name, a, m, r) ==
    /\ pc' = "done"
    /\ fn' = name
    /\ args' = a
    /\ before' = issues
    /\ issues' = m.issues
    /\ trace' = m.trace
    /\ ret' = r
    /\ UNCHANGED fs

\* the call returned the machine r.m and the value r.ret
FinishReturned(name, a, r) == Finish(name, a, r.m, r.ret)

\* the call returned the boolean r.ok and left the issue list r.issues
FinishChecked(name, a, r) == Finish(name, a, Machine(r.issues), r.ok)

\* the entry point returned r.result; the caller's list is not touched
FinishResult(name, a, r) ==
    Finish(name, a, [Machine(issues) EXCEPT !.trace = r.trace], r.result)

ValidateStr ==
    /\ pc = "ready"
    /\ \E value \in Values, path \in Paths, min_length \in OptLimits,
          max_length \in OptLimits,
          pattern \in {None} \cup {Some(p) : p \in Patterns} :
         Finish("validate_str",
                [value |-> value, path |-> path, min_length |-> min_length,
                 max_length |-> max_length, pattern |-> pattern],
                [Machine(issues) EXCEPT !.issues =
                    validate_str(value, path, @, min_length, max_length, pattern)],
                None)

ValidateNum ==
    /\ pc = "ready"
    /\ \E value \in Values, path \in Paths, min \in OptF64, max \in OptF64,
          integer \in BOOLEAN :
         Finish("validate_num",
                [value |-> value, path |-> path, min |-> min, max |-> max,
                 integer |-> integer],
                [Machine(issues) EXCEPT !.issues =
                    validate_num(value, path, @, min, max, integer)],
                None)

ValidateBool ==
    /\ pc = "ready"
    /\ \E value \in Values, path \in Paths :
         Finish("validate_bool", [value |-> value, path |-> path],
                [Machine(issues) EXCEPT !.issues = validate_bool(value, path, @)],
                None)

ValidateLiteral ==
    /\ pc = "ready"
    /\ \E value \in Values, path \in Paths, expected \in BOOLEAN :
         Finish("validate_literal",
                [value |-> value, path |-> path, expected |-> expected],
                [Machine(issues) EXCEPT !.issues =
                    validate_literal(value, path, @, expected)],
                None)

ValidateLiteralStr ==
    /\ pc = "ready"
    /\ \E value \in Values, path \in Paths, expected \in {s_ab, s_Ab} :
         Finish("validate_literal_str",
                [value |-> value, path |-> path, expected |-> expected],
                [Machine(issues) EXCEPT !.issues =
                    validate_literal_str(value, path, @, expected)],
                None)

ValidateLiteralI64 ==
    /\ pc = "ready"
    /\ \E value \in Values, path \in Paths, expected \in {2, 3} :
         Finish("validate_literal_i64",
                [value |-> value, path |-> path, expected |-> expected],
                [Machine(issues) EXCEPT !.issues =
                    validate_literal_i64(value, path, @, expected)],
                None)

ValidatePattern ==
    /\ pc = "ready"
    /\ \E value \in Values, path \in Paths, pattern \in Patterns :
         Finish("validate_pattern",
                [value |-> value, path |-> path, pattern |-> pattern],
                [Machine(issues) EXCEPT !.issues =
                    validate_pattern(value, path, @, pattern)],
                None)

ValidateObject ==
    /\ pc = "ready"
    /\ \E value \in Values, path \in Paths :
         FinishChecked("validate_object", [value |-> value, path |-> path],
                       validate_object(value, path, issues))

ValidateField ==
    /\ pc = "ready"
    /\ \E obj \in Values, path \in Paths, key \in Keys,
          validator \in {None} \cup {Some(v) : v \in Validators},
          optional \in BOOLEAN :
         Finish("validate_field",
                [obj |-> obj, path |-> path, key |-> key, validator |-> validator,
                 optional |-> optional],
                validate_field(obj, path, Machine(issues), key, validator, optional),
                None)

ValidateList ==
    /\ pc = "ready"
    /\ \E value \in Values, path \in Paths,
          item_validator \in {None, Some(v_str), Some(v_item), Some(v_either)},
          min_items \in OptLimits, max_items \in OptLimits :
         Finish("validate_list",
                [value |-> value, path |-> path, item_validator |-> item_validator,
                 min_items |-> min_items, max_items |-> max_items],
                validate_list(value, path, Machine(issues), item_validator,
                              min_items, max_items),
                None)

ValidateOneof ==
    /\ pc = "ready"
    /\ \E value \in Values, path \in Paths, validators \in CandidateLists :
         Finish("validate_oneof",
                [value |-> value, path |-> path, validators |-> validators],
                validate_oneof(value, path, Machine(issues), validators),
                None)

\* a Validator closure called on the caller's list
CallValidator ==
    /\ pc = "ready"
    /\ \E value \in Values, path \in Paths, validator \in Validators :
         Finish("validator",
                [value |-> value, path |-> path, validator |-> validator],
                Body(validator, value, path, Machine(issues)),
                None)

ValidateBundle ==
    /\ pc = "ready"
    /\ \E bundle_path \in BundlePaths, path_list \in Paths, accept_dir \in BOOLEAN,
          accept_zip \in BOOLEAN, zip_ext \in {None, Some(s_pkg), Some(s_asks)},
          name_pattern \in {None, Some(p_lower), Some(p_long), Some(p_bad)},
          content_validator \in {None, Some(c_manifest), Some([steps |-> <<>>])} :
         FinishReturned("validate_bundle",
                    [bundle_path |-> bundle_path, path_list |-> path_list,
                     accept_dir |-> accept_dir, accept_zip |-> accept_zip,
                     zip_ext |-> zip_ext, name_pattern |-> name_pattern,
                     content_validator |-> content_validator],
                    validate_bundle(bundle_path, path_list, Machine(issues), accept_dir,
                                    accept_zip, zip_ext, name_pattern,
                                    content_validator))

ValidateJsonFile ==
    /\ pc = "ready"
    /\ \E ctx \in Contexts, rel_path \in RelPaths, path \in Paths,
          content_validator \in {None, Some(v_fields), Some(v_doc)} :
         FinishReturned("validate_json_file",
                    [ctx |-> ctx, rel_path |-> rel_path, path |-> path,
                     content_validator |-> content_validator],
                    validate_json_file(ctx, rel_path, path, Machine(issues),
                                       content_validator))

ValidateFsFile ==
    /\ pc = "ready"
    /\ \E ctx \in Contexts, rel_path \in RelPaths, path \in Paths,
          ext \in {None, Some(<<"j", "s", "o", "n">>), Some(s_txt)} :
         FinishChecked("validate_fs_file",
                    [ctx |-> ctx, rel_path |-> rel_path, path |-> path, ext |-> ext],
                    validate_fs_file(ctx, rel_path, path, issues, ext))

ValidateFsDirectory ==
    /\ pc = "ready"
    /\ \E ctx \in Contexts, rel_path \in RelPaths, path \in Paths :
         FinishChecked("validate_fs_directory",
                    [ctx |-> ctx, rel_path |-> rel_path, path |-> path],
                    validate_fs_directory(ctx, rel_path, path, issues))

\* validate makes its own issue list; the caller's is not touched
Validate ==
    /\ pc = "ready"
    /\ \E value \in Values, validator \in Validators :
         FinishResult("validate", [value |-> value, validator |-> validator],
                      validate(value, validator))

ValidatePath ==
    /\ pc = "ready"
    /\ \E bundle_path \in BundlePaths, validator \in BundleValidators :
         FinishResult("validate_path",
                      [bundle_path |-> bundle_path, validator |-> validator],
                      validate_path(bundle_path, validator))

Next ==
    \/ ValidateStr
    \/ ValidateNum
    \/ ValidateBool
    \/ ValidateLiteral
    \/ ValidateLiteralStr
    \/ ValidateLiteralI64
    \/ ValidatePattern
    \/ ValidateObject
    \/ ValidateField
    \/ ValidateList
    \/ ValidateOneof
    \/ CallValidator
    \/ ValidateBundle
    \/ ValidateJsonFile
    \/ ValidateFsFile
    \/ ValidateFsDirectory
    \/ Validate
    \/ ValidatePath

Spec == Init /\ [][Next]_vars

----------------------------------------------------------------------------
(* Properties *)

Called(name) == pc = "done" /\ fn = name

\* the breadcrumb of a segment sequence, built left to right
Breadcrumb(segs) ==
    LET crumb[i \in 0..Len(segs)] ==
            IF i = 0 THEN <<>>
            ELSE IF i = 1 THEN segs[1]
            ELSE crumb[i - 1] \o <<".">> \o segs[i]
    IN  IF Len(segs) = 0 THEN <<"(", "r", "o", "o", "t", ")">> ELSE crumb[Len(segs)]

\* the segment of the list index i, for a one-digit i
Bracketed(i) == <<"[", Digit[i + 1], "]">>

\* where an issue is and what it is, without its message
Found(path, code) == [path |-> path, code |-> code]

Findings(list) == [i \in 1..Len(list) |-> Found(list[i].path, list[i].code)]

\* the issues appended by the call
New == SubSeq(issues, Len(before) + 1, Len(issues))

\* the issues the closure v leaves in an empty list when run alone
Alone(v, value, path) == Invoke(v, value, path, Machine(<<>>)).issues

IsPrimitive(v) ==
    v.k \in {"str", "num", "bool", "literal", "literal_str", "literal_i64", "pattern"}

\* The findings of the closure v on value at path, in depth-first,
\* left-to-right order: those of a field before those of the next field,
\* those of a list's bounds before those of its elements, those of an element
\* before those of the next element; a oneof has no finding if some candidate
\* has none, and its own finding otherwise.
RECURSIVE Discovery(_, _, _)
Discovery(v, value, path) ==
    IF IsPrimitive(v) THEN Findings(Alone(v, value, path))
    ELSE IF v.k = "object" THEN
        IF value.t # "object"
        THEN IF v.checked THEN <<Found(Breadcrumb(path), "type.mismatch")>> ELSE <<>>
        ELSE LET of_field(f) ==
                     IF f.key \in DOMAIN value.map
                     THEN IF f.validator = <<>> THEN <<>>
                          ELSE Discovery(f.validator[1], value.map[f.key],
                                         path \o <<f.key>>)
                     ELSE IF f.optional THEN <<>>
                          ELSE <<Found(Breadcrumb(path), "field.missing")>>
                 upto[i \in 0..Len(v.fields)] ==
                     IF i = 0 THEN <<>> ELSE upto[i - 1] \o of_field(v.fields[i])
             IN  upto[Len(v.fields)]
    ELSE IF v.k = "list" THEN
        IF value.t # "array" THEN <<Found(Breadcrumb(path), "type.mismatch")>>
        ELSE LET n == Len(value.arr)
                 short == IF v.min_items # <<>> /\ n < v.min_items[1]
                          THEN <<Found(Breadcrumb(path), "list.too_short")>> ELSE <<>>
                 long == IF v.max_items # <<>> /\ n > v.max_items[1]
                         THEN <<Found(Breadcrumb(path), "list.too_long")>> ELSE <<>>
                 upto[i \in 0..n] ==
                     IF i = 0 THEN <<>>
                     ELSE upto[i - 1] \o Discovery(v.item_validator[1], value.arr[i],
                                                   path \o <<Bracketed(i - 1)>>)
             IN  short \o long \o (IF v.item_validator = <<>> THEN <<>> ELSE upto[n])
    ELSE IF \E i \in 1..Len(v.validators) : Discovery(v.validators[i], value, path) = <<>>
         THEN <<>>
         ELSE <<Found(Breadcrumb(path), "oneof.no_match")>>

(* C1: validate_oneof gives every candidate it runs a fresh empty issue     *)
(* list, runs the candidates in list order up to and including the first    *)
(* that leaves no issue and none after it; if some candidate leaves no       *)
(* issue the caller's list is as it was, and otherwise it grew by exactly    *)
(* one issue, oneof.no_match at the rendering of the path of the call.       *)
C1_OneofContract ==
    Called("validate_oneof") =>
        LET vs == args.validators
            d == Direct(trace)
            matches == {i \in 1..Len(vs) : Alone(vs[i], args.value, args.path) = <<>>}
            tried == IF matches = {} THEN Len(vs)
                     ELSE CHOOSE i \in matches : \A j \in matches : i <= j
        IN  /\ Len(d) = tried
            /\ \A i \in 1..Len(d) :
                 /\ d[i].v = vs[i]
                 /\ d[i].value = args.value
                 /\ d[i].path = args.path
                 /\ d[i].given = <<>>
            /\ matches # {} => issues = before
            /\ matches = {} =>
                 /\ Len(issues) = Len(before) + 1
                 /\ IsPrefix(before, issues)
                 /\ Findings(New) = <<Found(Breadcrumb(args.path), "oneof.no_match")>>

\* three candidates of which only the second matches, on a list that is not empty
C1_Witness_SecondMatches ==
    /\ Called("validate_oneof")
    /\ Len(args.validators) = 3
    /\ Len(Direct(trace)) = 2
    /\ Alone(args.validators[3], args.value, args.path) # <<>>
    /\ before # <<>>
    /\ issues = before

\* every candidate fails
C1_Witness_NoMatch ==
    /\ Called("validate_oneof")
    /\ Len(args.validators) = 3
    /\ Len(Direct(trace)) = 3
    /\ Len(issues) = Len(before) + 1

(* C2: validate_list on an array appends list.too_short when the length is  *)
(* below minItems and list.too_long when it is above maxItems, and whether   *)
(* or not a bound is violated invokes the item validator, when supplied,     *)
(* exactly once per element, in index order from 0, on the path extended by  *)
(* "[i]"; on a value that is not an array it appends exactly one             *)
(* type.mismatch and invokes nothing.                                        *)
C2_ListContract ==
    Called("validate_list") =>
        LET d == Direct(trace)
            here == Breadcrumb(args.path)
        IN  IF args.value.t = "array"
            THEN LET arr == args.value.arr
                     short == args.min_items # <<>> /\ Len(arr) < args.min_items[1]
                     long == args.max_items # <<>> /\ Len(arr) > args.max_items[1]
                     bounds == (IF short THEN <<Found(here, "list.too_short")>> ELSE <<>>)
                               \o (IF long THEN <<Found(here, "list.too_long")>> ELSE <<>>)
                 IN  /\ IsPrefix(bounds, Findings(New))
                     /\ Len(d) = IF args.item_validator = <<>> THEN 0 ELSE Len(arr)
                     /\ \A i \in 1..Len(d) :
                          /\ d[i].v = args.item_validator[1]
                          /\ d[i].value = arr[i]
                          /\ d[i].path = args.path \o <<Bracketed(i - 1)>>
                     /\ args.item_validator = <<>> => Findings(New) = bounds
            ELSE /\ Findings(New) = <<Found(here, "type.mismatch")>>
                 /\ trace = <<>>

\* an array of length 2 with minItems 3: too short, and both elements validated
C2_Witness_ShortListItemsValidated ==
    /\ Called("validate_list")
    /\ args.value.t = "array"
    /\ Len(args.value.arr) = 2
    /\ args.min_items = <<3>>
    /\ Len(Direct(trace)) = 2
    /\ Len(New) >= 2
    /\ New[1].code = "list.too_short"

(* C3: validate_field on an object: with the key present and a validator    *)
(* supplied, the validator is invoked exactly once, on the field's value, on *)
(* the path extended by the key, and the call adds what the validator adds;  *)
(* with the key present and no validator, nothing is added; with the key     *)
(* absent and optional false, exactly one field.missing is appended at the   *)
(* path of the call; with the key absent and optional true, nothing is       *)
(* appended and the validator is not invoked.                                *)
C3_FieldContract ==
    (Called("validate_field") /\ args.obj.t = "object") =>
        LET d == Direct(trace)
            present == args.key \in DOMAIN args.obj.map
        IN  /\ (present /\ args.validator # <<>>) =>
                 /\ Len(d) = 1
                 /\ d[1].v = args.validator[1]
                 /\ d[1].value = args.obj.map[args.key]
                 /\ d[1].path = args.path \o <<args.key>>
                 /\ d[1].given = before
                 /\ IsPrefix(before, issues)
                 /\ Findings(New) = Findings(Alone(args.validator[1],
                                                   args.obj.map[args.key],
                                                   args.path \o <<args.key>>))
            /\ (present /\ args.validator = <<>>) => (issues = before /\ trace = <<>>)
            /\ (~present /\ ~args.optional) =>
                 /\ IsPrefix(before, issues)
                 /\ Findings(New) = <<Found(Breadcrumb(args.path), "field.missing")>>
                 /\ trace = <<>>
            /\ (~present /\ args.optional) => (issues = before /\ trace = <<>>)

\* a required key missing from the object {}
C3_Witness_Missing ==
    /\ Called("validate_field")
    /\ args.obj = Object(<<>>)
    /\ ~args.optional
    /\ Len(New) = 1
    /\ New[1].code = "field.missing"

\* an optional key missing, with a validator supplied
C3_Witness_OptionalMissing ==
    /\ Called("validate_field")
    /\ args.obj = Object(<<>>)
    /\ args.optional
    /\ args.validator # <<>>
    /\ issues = before

\* a present key whose validator finds something
C3_Witness_PresentInvalid ==
    /\ Called("validate_field")
    /\ args.obj.t = "object"
    /\ args.key \in DOMAIN args.obj.map
    /\ args.validator # <<>>
    /\ Len(Direct(trace)) = 1
    /\ New # <<>>

(* C10: validate_field on a value that is not an object appends no issue    *)
(* and does not invoke the validator, for every key and also when optional   *)
(* is false; a closure made of validate_field calls alone, run by validate   *)
(* on a value that is not an object, returns ok = true, and the same fields  *)
(* guarded by validate_object report the one type.mismatch of that guard.    *)
C10_FieldOfNonObject ==
    /\ (Called("validate_field") /\ args.obj.t # "object") =>
          (issues = before /\ trace = <<>>)
    /\ (Called("validate") /\ args.validator.k = "object" /\ args.value.t # "object") =>
          IF args.validator.checked
          THEN ~ret.ok /\ Findings(ret.issues) = <<Found(Breadcrumb(<<>>), "type.mismatch")>>
          ELSE ret.ok /\ ret.issues = <<>>

\* a required field of a string, with a validator supplied
C10_Witness_RequiredOfString ==
    /\ Called("validate_field")
    /\ args.obj.t = "str"
    /\ ~args.optional
    /\ args.validator # <<>>
    /\ issues = before

\* the unguarded closure accepts an array
C10_Witness_UnguardedAccepts ==
    /\ Called("validate")
    /\ args.validator = v_fields
    /\ args.value.t = "array"
    /\ ret.ok

(* C4: validate_bundle, given an existing regular file that is a readable   *)
(* zip archive and whose path ends in "." followed by the alternate archive  *)
(* extension of the call, with archives accepted, returns an archive-backed  *)
(* accessor and records none of bundle.invalid, bundle.type_mismatch and     *)
(* bundle.open_error; and validate_bundle takes a regular file for an        *)
(* archive exactly when FSContext::new does.                                 *)
C4_AlternateExtensionAccepted ==
    Called("validate_bundle") =>
        LET bp == args.bundle_path
            regular == bp \in DOMAIN fs /\ fs[bp].kind = "file"
        IN  /\ ( /\ regular
                 /\ fs[bp].opens
                 /\ fs[bp].zip # <<>>
                 /\ zip_fault(fs[bp].zip[1]) = None
                 /\ args.zip_ext # <<>>
                 /\ ends_with(bp, <<".">> \o args.zip_ext[1])
                 /\ args.accept_zip )
               => /\ ret # <<>>
                  /\ ret[1].is_zip
                  /\ \A i \in 1..Len(New) :
                       New[i].code \notin {"bundle.invalid", "bundle.type_mismatch",
                                           "bundle.open_error"}
            /\ regular =>
                 (bundle_archive_suffix(bp, args.zip_ext) <=> fs_context_archive_suffix(bp))

\* an archive with the alternate extension of the call is refused at construction
C4_Witness_AlternateExtensionRefused ==
    /\ Called("validate_bundle")
    /\ args.bundle_path = p_b_pkg
    /\ fs[p_b_pkg].kind = "file"
    /\ fs[p_b_pkg].opens
    /\ fs[p_b_pkg].zip # <<>>
    /\ zip_fault(fs[p_b_pkg].zip[1]) = None
    /\ args.zip_ext = Some(s_pkg)
    /\ args.accept_zip
    /\ ret = <<>>
    /\ Len(New) = 1
    /\ New[1].code = "bundle.open_error"

(* C5: validate_bundle appends exactly one issue, returns no accessor and   *)
(* does not invoke the content validator when the path is missing            *)
(* (bundle.not_found), is a directory and directories are not accepted       *)
(* (bundle.type_mismatch), is an archive and archives are not accepted       *)
(* (bundle.type_mismatch), is neither (bundle.invalid), or the accessor      *)
(* cannot be constructed (bundle.open_error); in every other case it returns *)
(* the accessor and invokes the content validator, when supplied, exactly    *)
(* once, on the accessor and the path segments of the call.                  *)
C5_BundleTerminal ==
    Called("validate_bundle") =>
        LET bp == args.bundle_path
            d == Direct(trace)
            missing == bp \notin DOMAIN fs
            dir == ~missing /\ fs[bp].kind = "dir"
            archive == ~missing /\ ~dir /\ bundle_archive_suffix(bp, args.zip_ext)
            refused == (dir /\ ~args.accept_dir) \/ (archive /\ ~args.accept_zip)
            invalid == ~missing /\ ~dir /\ ~archive
            unopened == ~missing /\ ~refused /\ ~invalid /\ ~FSContext_new(bp).ok
            terminal == missing \/ refused \/ invalid \/ unopened
            code == IF missing THEN "bundle.not_found"
                    ELSE IF refused THEN "bundle.type_mismatch"
                    ELSE IF invalid THEN "bundle.invalid"
                    ELSE "bundle.open_error"
        IN  /\ IsPrefix(before, issues)
            /\ terminal =>
                 /\ Findings(New) = <<Found(Breadcrumb(args.path_list), code)>>
                 /\ ret = <<>>
                 /\ trace = <<>>
            /\ ~terminal =>
                 /\ ret # <<>>
                 /\ \A i \in 1..Len(New) :
                      New[i].code \notin {"bundle.not_found", "bundle.type_mismatch",
                                          "bundle.invalid", "bundle.open_error"}
                 /\ Len(d) = IF args.content_validator = <<>> THEN 0 ELSE 1
                 /\ args.content_validator # <<>> =>
                      /\ d[1].v = args.content_validator[1]
                      /\ d[1].ctx = ret[1]
                      /\ d[1].path = args.path_list

\* the accessor is returned and the content validator run after a name mismatch
C5_Witness_NameMismatchGoesOn ==
    /\ Called("validate_bundle")
    /\ ret # <<>>
    /\ Len(Direct(trace)) = 1
    /\ New # <<>>
    /\ New[1].code = "bundle.name_mismatch"

\* a directory that is not accepted, with a content validator supplied
C5_Witness_RefusedDirectory ==
    /\ Called("validate_bundle")
    /\ args.bundle_path = p_dir
    /\ ~args.accept_dir
    /\ args.content_validator # <<>>
    /\ ret = <<>>
    /\ Len(New) = 1

\* a file with an archive suffix that is no archive
C5_Witness_OpenError ==
    /\ Called("validate_bundle")
    /\ ret = <<>>
    /\ Len(New) = 1
    /\ New[1].code = "bundle.open_error"

(* C6: every call leaves the issue list it was given as the prefix of the   *)
(* list after it, and what a validator, validate_field, validate_list or     *)
(* validate_oneof adds is the findings of the closures it runs in            *)
(* depth-first, left-to-right order.                                         *)
C6_AppendOnlyInDiscoveryOrder ==
    /\ pc = "done" => IsPrefix(before, issues)
    /\ Called("validator") =>
         Findings(New) = Discovery(args.validator, args.value, args.path)
    /\ Called("validate_field") =>
         Findings(New) =
             Discovery([k |-> "object", checked |-> FALSE,
                        fields |-> <<[key |-> args.key, validator |-> args.validator,
                                      optional |-> args.optional]>>],
                       args.obj, args.path)
    /\ Called("validate_list") =>
         Findings(New) =
             Discovery([k |-> "list", item_validator |-> args.item_validator,
                        min_items |-> args.min_items, max_items |-> args.max_items],
                       args.value, args.path)
    /\ Called("validate_oneof") =>
         Findings(New) =
             Discovery([k |-> "oneof", validators |-> args.validators],
                       args.value, args.path)

\* the document closure adds several issues, at several depths, to a list
\* that already holds one
C6_Witness_NestedOnPriorList ==
    /\ Called("validator")
    /\ args.validator = v_doc
    /\ args.value = Document
    /\ before # <<>>
    /\ Len(New) >= 3
    /\ \E i, j \in 1..Len(New) : i < j /\ New[i].path # New[j].path

(* C7: the path of a recorded issue is "(root)" for the empty segment       *)
(* sequence and the segments joined by "." otherwise; every closure is       *)
(* invoked on the path of the call that invokes it, or on that path extended *)
(* by one segment, a field name or "[i]", so no segment added in one branch  *)
(* is seen in another; field items, index 2, field name renders as           *)
(* items.[2].name.                                                           *)
C7_Breadcrumbs ==
    LET root == IF fn = "validate" THEN <<>> ELSE args.path
        \* the path of the call that made the j-th invocation
        parent(j) ==
            IF trace[j].depth = 0 THEN root
            ELSE LET up == {i \in 1..(j - 1) : trace[i].depth = trace[j].depth - 1}
                 IN  trace[CHOOSE i \in up : \A h \in up : h <= i].path
        segments == Keys \cup {Bracketed(i) : i \in 0..9}
        places == {root} \cup {trace[j].path : j \in 1..Len(trace)}
        found == IF fn = "validate" THEN ret.issues ELSE New
    IN  (pc = "done" /\ fn \in {"validator", "validate_field", "validate_list",
                              "validate_oneof", "validate"}) =>
            /\ \A j \in 1..Len(trace) :
                 \/ trace[j].path = parent(j)
                 \/ \E seg \in segments : trace[j].path = parent(j) \o <<seg>>
            /\ \A i \in 1..Len(found) :
                 \E place \in places : found[i].path = Breadcrumb(place)
            /\ (fn = "validate" /\ args.validator = v_doc /\ args.value = Document) =>
                 \E i \in 1..Len(found) :
                    found[i].path = <<"i", "t", "e", "m", "s", ".", "[", "2", "]", ".",
                                      "n", "a", "m", "e">>

\* the third item of the document is reached after the first two
C7_Witness_ItemsIndexName ==
    /\ Called("validate")
    /\ args.validator = v_doc
    /\ args.value = Document
    /\ \E j \in 1..Len(trace) :
          trace[j].path = <<s_items, <<"[", "2", "]">>, s_name>>
    /\ \E i \in 1..Len(ret.issues) :
          ret.issues[i].path = <<"i", "t", "e", "m", "s", ".", "[", "1", "]">>

(* C8: validate and validate_path invoke the closure exactly once, on the   *)
(* empty path and a fresh empty issue list, and return the issues the        *)
(* closure found, in order, with ok true exactly when there are none; a      *)
(* value with no finding yields ok = true and no issues.                     *)
C8_EntryPoints ==
    /\ Called("validate") =>
         /\ Len(Direct(trace)) = 1
         /\ Direct(trace)[1].v = args.validator
         /\ Direct(trace)[1].value = args.value
         /\ Direct(trace)[1].path = <<>>
         /\ Direct(trace)[1].given = <<>>
         /\ Findings(ret.issues) = Discovery(args.validator, args.value, <<>>)
         /\ ret.ok <=> ret.issues = <<>>
         /\ Discovery(args.validator, args.value, <<>>) = <<>> => ret.ok
    /\ Called("validate_path") =>
         /\ Len(Direct(trace)) = 1
         /\ Direct(trace)[1].v = args.validator
         /\ Direct(trace)[1].bundle_path = args.bundle_path
         /\ Direct(trace)[1].path = <<>>
         /\ Direct(trace)[1].given = <<>>
         /\ ret.issues =
              validate_bundle(args.bundle_path, <<>>, Machine(<<>>),
                              args.validator.accept_dir, args.validator.accept_zip,
                              args.validator.zip_ext, args.validator.name_pattern,
                              args.validator.content_validator).m.issues
         /\ ret.ok <=> ret.issues = <<>>

\* a composed closure finds nothing in an object
C8_Witness_Valid ==
    /\ Called("validate")
    /\ args.validator = v_item
    /\ args.value.t = "object"
    /\ ret.ok
    /\ before # <<>>

\* a closure finds something
C8_Witness_Invalid ==
    /\ Called("validate")
    /\ ~ret.ok
    /\ Len(ret.issues) >= 2

\* a bundle passes
C8_Witness_BundleValid ==
    /\ Called("validate_path")
    /\ ret.ok

(* C9: for an archive-backed accessor, is_file(p) holds exactly when p is   *)
(* an entry name, is_dir(p) exactly when some entry name starts with p "/",  *)
(* and exists(p) exactly when one of the two holds; validate_fs_directory    *)
(* reports dir.not_dir exactly for an entry name that is the directory of no *)
(* entry, and validate_json_file and validate_fs_file report file.not_file   *)
(* exactly for a directory of some entry that is not an entry name.          *)
C9_ArchiveAccessor ==
    (pc = "done"
       /\ fn \in {"validate_fs_directory", "validate_fs_file", "validate_json_file"}
       /\ args.ctx.is_zip) =>
        LET ctx == args.ctx
            p == args.rel_path
            names == DOMAIN ctx.zip_entries
            entry == p \in names
            synthetic == \E k \in names :
                            /\ Len(k) > Len(p)
                            /\ k[Len(p) + 1] = "/"
                            /\ \A i \in 1..Len(p) : k[i] = p[i]
            reports(code) == \E i \in 1..Len(New) : New[i].code = code
        IN  /\ is_file(ctx, p) <=> entry
            /\ is_dir(ctx, p) <=> synthetic
            /\ exists(ctx, p) <=> (entry \/ synthetic)
            /\ fn = "validate_fs_directory" =>
                 /\ reports("dir.not_dir") <=> (entry /\ ~synthetic)
                 /\ reports("dir.not_found") <=> (~entry /\ ~synthetic)
                 /\ ret <=> synthetic
            /\ fn \in {"validate_fs_file", "validate_json_file"} =>
                 /\ reports("file.not_file") <=> (synthetic /\ ~entry)
                 /\ reports("file.not_found") <=> (~entry /\ ~synthetic)

\* the directory d has no entry of its own in the archive that holds d/x
C9_Witness_SyntheticDirectory ==
    /\ Called("validate_fs_directory")
    /\ args.ctx.is_zip
    /\ args.rel_path = s_d
    /\ s_d \notin DOMAIN args.ctx.zip_entries
    /\ s_d_x \in DOMAIN args.ctx.zip_entries
    /\ ret

\* an entry name that is the directory of no entry
C9_Witness_NotDir ==
    /\ Called("validate_fs_directory")
    /\ args.ctx.is_zip
    /\ Len(New) = 1
    /\ New[1].code = "dir.not_dir"

\* a synthetic directory is not a file
C9_Witness_NotFile ==
    /\ Called("validate_json_file")
    /\ args.ctx.is_zip
    /\ Len(New) = 1
    /\ New[1].code = "file.not_file"

=============================================================================
